---------------------------- MODULE Spec2Model ----------------------------
(***************************************************************************)
(* Model of log_to_es.py: the ingestion loop of main() that reads          *)
(* teeworlds server log lines from stdin, decodes them, dispatches on the  *)
(* event kind, extracts one record per game line and sends the records to  *)
(* Elasticsearch in bulk.                                                  *)
(*                                                                         *)
(* A Python str is a sequence of one-character strings, so that slicing,   *)
(* str.split and str.strip are computed the way Python computes them.      *)
(* A Python call that may raise returns [ok |-> TRUE, val |-> v] or        *)
(* [ok |-> FALSE, exc |-> name of the exception].                          *)
(***************************************************************************)
EXTENDS Integers, Sequences, FiniteSets, Bags, TLC

VARIABLES
    pc,              \* position of main(): "Reading" | "Raised" | "Returned"
    events,          \* the local list `events` of main()
    bulk_calls,      \* the calls of helpers.bulk so far: the list passed, the outcome
    lines_read,      \* what sys.stdin.readline() has returned so far, oldest first
    exc,             \* the exception that left main(), "none" if none
    extractor_calls, \* how many times an extractor function has been called
    call,            \* the arguments of one direct extractor call (SpecExtract)
    ret              \* what that call returned or raised (SpecExtract)

vars == <<pc, events, bulk_calls, lines_read, exc, extractor_calls, call, ret>>

-----------------------------------------------------------------------------
(* Bounds of the model. *)

\* Lines read from stdin in one behaviour of Spec.
MaxLines == 7

-----------------------------------------------------------------------------
(* Python values. *)

Ok(v) == [ok |-> TRUE, val |-> v]

Raise(e) == [ok |-> FALSE, exc |-> e]

\* The element of a one-element set.  In {e : x \in {v}} the name x stands for
\* the value of v, computed once, whatever use e makes of x.
The(S) == CHOOSE x \in S : TRUE

Min(S) == CHOOSE i \in S : \A j \in S : i <= j

Max(S) == CHOOSE i \in S : \A j \in S : i >= j

\* s[n:]
Drop(str, n) == The({SubSeq(s, n + 1, Len(s)) : s \in {str}})

\* s.find(sep) + 1: the first position where sep occurs in s, 0 when it does not
Find(str, sub) ==
    The({ IF at = {} THEN 0 ELSE Min(at) :
          at \in { {i \in 1..(Len(s) - Len(sep) + 1) :
                       SubSeq(s, i, i + Len(sep) - 1) = sep} :
                   s \in {str}, sep \in {sub} } })

\* s.split(sep, maxsplit); maxsplit = -1 is "no limit", as in Python
RECURSIVE Split(_, _, _)
Split(str, sub, maxsplit) ==
    The({ IF max = 0 \/ i[1] = 0
          THEN <<i[2]>>
          ELSE <<SubSeq(i[2], 1, i[1] - 1)>>
                   \o Split(Drop(i[2], i[1] + Len(sub) - 1), sub, max - 1) :
          i \in { <<Find(s, sub), s>> : s \in {str} }, max \in {maxsplit} })

Whitespace == {" ", "\t", "\n", "\r"}

\* s.strip()
Strip(str) ==
    The({ IF keep[1] = {} THEN <<>>
          ELSE SubSeq(keep[2], Min(keep[1]), Max(keep[1])) :
          keep \in { <<{i \in 1..Len(s) : s[i] \notin Whitespace}, s>> :
                     s \in {str} } })

HexDigit ==
    "0" :> 0 @@ "1" :> 1 @@ "2" :> 2 @@ "3" :> 3 @@ "4" :> 4 @@ "5" :> 5 @@
    "6" :> 6 @@ "7" :> 7 @@ "8" :> 8 @@ "9" :> 9 @@ "a" :> 10 @@ "b" :> 11 @@
    "c" :> 12 @@ "d" :> 13 @@ "e" :> 14 @@ "f" :> 15 @@ "A" :> 10 @@
    "B" :> 11 @@ "C" :> 12 @@ "D" :> 13 @@ "E" :> 14 @@ "F" :> 15

\* the number the digits of s spell in the given base
RECURSIVE Value(_, _)
Value(str, base) ==
    The({ IF s = <<>> THEN 0
          ELSE base * Value(SubSeq(s, 1, Len(s) - 1), base) + HexDigit[s[Len(s)]] :
          s \in {str} })

\* int(s, base=16) on an optional sign followed by hexadecimal digits; anything
\* else is a ValueError (the 0x prefix and the digit separators that int() also
\* accepts do not occur in the lines of this model)
IntBase16(str) ==
    The({ IF d[2] = <<>> \/ \E i \in 1..Len(d[2]) : d[2][i] \notin DOMAIN HexDigit
          THEN Raise("ValueError")
          ELSE Ok(d[1] * Value(d[2], 16)) :
          d \in { IF s # <<>> /\ s[1] \in {"-", "+"}
                  THEN <<IF s[1] = "-" THEN -1 ELSE 1, Tail(s)>>
                  ELSE <<1, s>> : s \in {str} } })

DecDigits == {"0", "1", "2", "3", "4", "5", "6", "7", "8", "9"}

\* s without the zeros it ends with
RECURSIVE StripZeros(_)
StripZeros(str) ==
    The({ IF s # <<>> /\ s[Len(s)] = "0" THEN StripZeros(SubSeq(s, 1, Len(s) - 1))
          ELSE s : s \in {str} })

\* float(s) on digits with an optional sign and an optional fraction; the value
\* is kept exact, as <<m, k>> standing for m / 10^k with no trailing zero in the
\* fraction, so that two spellings of one number are one value.  Anything else
\* is a ValueError (exponents, inf and nan do not occur in the lines of this
\* model).
Float(str) ==
    The({ IF \/ p[2] \o p[3] = <<>>
             \/ \E i \in 1..Len(p[2] \o p[3]) : (p[2] \o p[3])[i] \notin DecDigits
          THEN Raise("ValueError")
          ELSE Ok(<<p[1] * Value(p[2] \o StripZeros(p[3]), 10),
                    Len(StripZeros(p[3]))>>) :
          p \in { <<d[1], d[2][1], IF Len(d[2]) = 2 THEN d[2][2] ELSE <<>> >> :
                  d \in { IF s # <<>> /\ s[1] \in {"-", "+"}
                          THEN <<IF s[1] = "-" THEN -1 ELSE 1,
                                 Split(Tail(s), <<".">>, 1)>>
                          ELSE <<1, Split(s, <<".">>, 1)>> : s \in {str} } } })

\* d.get(key, default)
Get(d, key, default) == IF key \in DOMAIN d THEN d[key] ELSE default

-----------------------------------------------------------------------------
(* Module-level constants of log_to_es.py. *)

INDEX_NAME == "logteeworlds"

LEAVE_GAME_KILL_ID == <<"-","3">>

WEAPON_ID_2_NAME ==
    <<"5">> :> <<"n","i","n","j","a">> @@
    <<"4">> :> <<"l","a","s","e","r","_","r","i","f","l","e">> @@
    <<"3">> :> <<"g","r","e","n","a","d","e">> @@
    <<"2">> :> <<"s","h","o","t","g","u","n">> @@
    <<"1">> :> <<"n","o","r","m","a","l","_","g","u","n">> @@
    <<"0">> :> <<"h","a","m","m","e","r">> @@
    <<"-","1">> :> <<"t","h","e","_","m","a","p","_","k","i","l","l","e","d","_","y","o","u">> @@
    <<"-","3">> :> <<"l","e","a","v","e","_","t","e","a","m">> @@
    <<"-","2">> :> <<"c","o","n","s","o","l","e","_","k","i","l","l">>

\* the dict local to extract_pickup_event
item_pickup_to_name ==
    <<"0","/","0">> :> <<"h","e","a","l","t","h">> @@
    <<"1","/","0">> :> <<"a","r","m","o","r">> @@
    <<"2","/","0">> :> <<"h","a","m","m","e","r">> @@
    <<"2","/","1">> :> <<"n","o","r","m","a","l","_","g","u","n">> @@
    <<"2","/","2">> :> <<"s","h","o","t","g","u","n">> @@
    <<"2","/","3">> :> <<"g","r","e","n","a","d","e">> @@
    <<"2","/","4">> :> <<"l","a","s","e","r","_","r","i","f","l","e">> @@
    <<"3","/","5">> :> <<"n","i","n","j","a">>

-----------------------------------------------------------------------------
(* The extractors.  `a, b = x.split(...)` raises ValueError unless the split *)
(* gives exactly two parts.                                                 *)

\* player_part.split(':', 1) written with no limit: every ':' splits
split_player_every_colon(player_part) == Split(player_part, <<":">>, -1)

\* player_id, player_name = player_part.split(':', 1)
split_player(player_part) == Split(player_part, <<":">>, 1)

\* log[len("leave player='"):].split("'", 1)
leave_parts(log) == Split(Drop(log, Len(<<"l","e","a","v","e"," ","p","l","a","y","e","r","=","'">>)), <<"'">>, 1)

extract_leave_event(log, timestamp) ==
    LET parts == leave_parts(log)
    IN  IF Len(parts) # 2 THEN Raise("ValueError")
        ELSE LET player == split_player(parts[1])
             IN  IF Len(player) # 2 THEN Raise("ValueError")
                 ELSE Ok([index |-> INDEX_NAME,
                          type |-> "leave",
                          timestamp |-> timestamp * 1000,
                          player_id |-> player[1],
                          player_name |-> player[2]])

\* log[len("team_join player='"):].split("' team=", 1)
team_join_parts(log) == Split(Drop(log, Len(<<"t","e","a","m","_","j","o","i","n"," ","p","l","a","y","e","r","=","'">>)), <<"'"," ","t","e","a","m","=">>, 1)

extract_team_join_event(log, timestamp) ==
    LET parts == team_join_parts(log)
    IN  IF Len(parts) # 2 THEN Raise("ValueError")
        ELSE LET player == split_player(parts[1])
             IN  IF Len(player) # 2 THEN Raise("ValueError")
                 ELSE Ok([index |-> INDEX_NAME,
                          type |-> "team_join",
                          timestamp |-> timestamp * 1000,
                          team_id |-> parts[2],
                          player_id |-> player[1],
                          player_name |-> player[2]])

\* log[len("velocity player='"):].split("' value=", 1)
velocity_parts(log) == Split(Drop(log, Len(<<"v","e","l","o","c","i","t","y"," ","p","l","a","y","e","r","=","'">>)), <<"'"," ","v","a","l","u","e","=">>, 1)

extract_velocity_event(log, timestamp) ==
    LET parts == velocity_parts(log)
    IN  IF Len(parts) # 2 THEN Raise("ValueError")
        ELSE LET player == split_player(parts[1])
                 value  == Float(parts[2])
             IN  IF Len(player) # 2 \/ ~value.ok THEN Raise("ValueError")
                 ELSE Ok([index |-> INDEX_NAME,
                          type |-> "velocity",
                          timestamp |-> timestamp * 1000,
                          player_id |-> player[1],
                          player_name |-> player[2],
                          velocity |-> value.val])

\* log[len("pickup player='"):].split("' item=", 1)
pickup_parts(log) == Split(Drop(log, Len(<<"p","i","c","k","u","p"," ","p","l","a","y","e","r","=","'">>)), <<"'"," ","i","t","e","m","=">>, 1)

\* item_pickup_to_name.get(item_part, item_part) with the fallback left out
pickup_item_no_fallback(item_part) == Get(item_pickup_to_name, item_part, <<>>)

\* item_pickup_to_name.get(item_part, item_part)
pickup_item(item_part) == Get(item_pickup_to_name, item_part, item_part)

extract_pickup_event(log, timestamp) ==
    LET parts == pickup_parts(log)
    IN  IF Len(parts) # 2 THEN Raise("ValueError")
        ELSE LET player == split_player(parts[1])
             IN  IF Len(player) # 2 THEN Raise("ValueError")
                 ELSE Ok([index |-> INDEX_NAME,
                          type |-> "pickup",
                          timestamp |-> timestamp * 1000,
                          player_id |-> player[1],
                          player_name |-> player[2],
                          item |-> pickup_item(parts[2])])

\* log[len("kill player='"):].split("' victim='", 1)
kill_parts(log) == Split(Drop(log, Len(<<"k","i","l","l"," ","p","l","a","y","e","r","=","'">>)), <<"'"," ","v","i","c","t","i","m","=","'">>, 1)

\* is_suicide with the test on the weapon left out
is_suicide_ids_only(killer_id, victim_id, weapon_part) == killer_id = victim_id

\* killer_id == victim_id and weapon_part != LEAVE_GAME_KILL_ID
is_suicide(killer_id, victim_id, weapon_part) ==
    killer_id = victim_id /\ weapon_part # LEAVE_GAME_KILL_ID

\* WEAPON_ID_2_NAME.get(weapon_part, weapon_part)
kill_weapon(weapon_part) == Get(WEAPON_ID_2_NAME, weapon_part, weapon_part)

extract_kill_event(log, timestamp) ==
    LET parts == kill_parts(log)
    IN  IF Len(parts) # 2 THEN Raise("ValueError")
        ELSE
        LET killer == split_player(parts[1])
            \* other_part.split("' weapon=") has no limit
            rest   == Split(parts[2], <<"'"," ","w","e","a","p","o","n","=">>, -1)
        IN  IF Len(killer) # 2 \/ Len(rest) # 2 THEN Raise("ValueError")
            ELSE
            LET victim == split_player(rest[1])
                \* other_part.split(" special=") has no limit
                tail   == Split(rest[2], <<" ","s","p","e","c","i","a","l","=">>, -1)
            IN  IF Len(victim) # 2 \/ Len(tail) # 2 THEN Raise("ValueError")
                ELSE Ok([index |-> INDEX_NAME,
                         type |-> "kill",
                         timestamp |-> timestamp * 1000,
                         killer_id |-> killer[1],
                         killer_name |-> killer[2],
                         victim_id |-> victim[1],
                         victim_name |-> victim[2],
                         weapon |-> kill_weapon(tail[1]),
                         special |-> tail[2],
                         is_suicide |-> is_suicide(killer[1], victim[1], tail[1])])

-----------------------------------------------------------------------------
(* The line decoder and the dispatch table of main(). *)

\* line.split('[', 2)[2].split(']')[0]
_extract_log_type(line) ==
    LET parts == Split(line, <<"[">>, 2)
    IN  IF Len(parts) < 3 THEN Raise("IndexError")
        ELSE Ok(Split(parts[3], <<"]">>, -1)[1])

\* int(line.split('[', 1)[1].split(']')[0], base=16)
_extract_timestamp(line) ==
    LET parts == Split(line, <<"[">>, 1)
    IN  IF Len(parts) < 2 THEN Raise("IndexError")
        ELSE IntBase16(Split(parts[2], <<"]">>, -1)[1])

\* log.split(' ', 1)[0]
_extract_event_type(log) == Split(log, <<" ">>, 1)[1]

\* the keys of the dict type_to_extractor
type_to_extractor == {<<"p","i","c","k","u","p">>, <<"k","i","l","l">>, <<"t","e","a","m","_","j","o","i","n">>, <<"l","e","a","v","e">>, <<"v","e","l","o","c","i","t","y">>}

\* type_to_extractor[event_type](log, timestamp)
extractor(event_type, log, timestamp) ==
    CASE event_type = <<"p","i","c","k","u","p">>    -> extract_pickup_event(log, timestamp)
      [] event_type = <<"k","i","l","l">>      -> extract_kill_event(log, timestamp)
      [] event_type = <<"t","e","a","m","_","j","o","i","n">> -> extract_team_join_event(log, timestamp)
      [] event_type = <<"l","e","a","v","e">>     -> extract_leave_event(log, timestamp)
      [] event_type = <<"v","e","l","o","c","i","t","y">>  -> extract_velocity_event(log, timestamp)

\* log_type != "game" with the comparison made on the first letter only
not_game_first_letter(log_type) == log_type = <<>> \/ log_type[1] # "g"

\* log_type != "game"
not_game(log_type) == log_type # <<"g","a","m","e">>

\* One pass of the body of `while True` from line.strip() to the call of the
\* extractor, for the text readline() returned: what the pass ends with.
\*   "raise":    an exception leaves main() (called: an extractor raised it)
\*   "continue": one of the two `continue` statements
\*   "event":    the extractor returned the record `event`
decode_and_extract(raw) ==
    LET line      == Strip(raw)
        timestamp == _extract_timestamp(line)
        log_type  == _extract_log_type(line)
        after     == Split(line, <<":"," ">>, 1)
    IN  IF ~timestamp.ok
        THEN [tag |-> "raise", exc |-> timestamp.exc, called |-> FALSE]
        ELSE IF ~log_type.ok
        THEN [tag |-> "raise", exc |-> log_type.exc, called |-> FALSE]
        ELSE IF not_game(log_type.val)
        THEN [tag |-> "continue", called |-> FALSE]
        ELSE IF Len(after) < 2
        THEN [tag |-> "raise", exc |-> "IndexError", called |-> FALSE]
        ELSE LET log        == after[2]
                 event_type == _extract_event_type(log)
             IN  IF event_type \notin type_to_extractor
                 THEN [tag |-> "continue", called |-> FALSE]
                 ELSE LET event == extractor(event_type, log, timestamp.val)
                      IN  IF event.ok
                          THEN [tag |-> "event", event |-> event.val, called |-> TRUE]
                          ELSE [tag |-> "raise", exc |-> event.exc, called |-> TRUE]

-----------------------------------------------------------------------------
(* The lines stdin delivers in this model.  readline() keeps the newline.  *)

KillLine   == <<"[","1","f","]","[","g","a","m","e","]",":"," ","k","i","l","l"," ","p","l","a","y","e","r","=","'","1",":","A","'"," ","v","i","c","t","i","m","=","'","1",":","A","'"," ","w","e","a","p","o","n","=","3"," ","s","p","e","c","i","a","l","=","0","\n">>
PickupLine == <<"[","2","0","]","[","g","a","m","e","]",":"," ","p","i","c","k","u","p"," ","p","l","a","y","e","r","=","'","2",":","B","'"," ","i","t","e","m","=","1","/","0","\n">>
ChatLine   == <<"[","2","1","]","[","c","h","a","t","]",":"," ","h","e","l","l","o","\n">>
UnknownKindLine == <<"[","2","2","]","[","g","a","m","e","]",":"," ","u","n","k","n","o","w","n","_","k","i","n","d"," ","f","o","o","=","b","a","r","\n">>

\* game lines of the five kinds of the dispatch table
GameLines ==
    { KillLine, PickupLine,
      <<"[","2","3","]","[","g","a","m","e","]",":"," ","t","e","a","m","_","j","o","i","n"," ","p","l","a","y","e","r","=","'","0",":","n","a","m","e","l","e","s","s"," ","t","e","e","'"," ","t","e","a","m","=","0","\n">>,
      <<"[","2","4","]","[","g","a","m","e","]",":"," ","l","e","a","v","e"," ","p","l","a","y","e","r","=","'","0",":","n","a","m","e","l","e","s","s"," ","t","e","e","'","\n">>,
      <<"[","2","5","]","[","g","a","m","e","]",":"," ","v","e","l","o","c","i","t","y"," ","p","l","a","y","e","r","=","'","0",":","n","a","m","e","l","e","s","s"," ","t","e","e","'"," ","v","a","l","u","e","=","0",".","0","0","1","9","5","3","\n">>,
      <<"[","2","6","]","[","g","a","m","e","]",":"," ","k","i","l","l"," ","p","l","a","y","e","r","=","'","1",":","A","l","e","x","'"," ","v","i","c","t","i","m","=","'","1",":","A","l","e","x","'"," ","w","e","a","p","o","n","=","-","3"," ","s","p","e","c","i","a","l","=","0","\r","\n">> }

\* well-formed lines of another channel
OtherChannelLines ==
    { ChatLine,
      <<"[","2","7","]","[","s","e","r","v","e","r","]",":"," ","k","i","l","l"," ","p","l","a","y","e","r","=","'","1",":","A","'"," ","v","i","c","t","i","m","=","'","1",":","A","'"," ","w","e","a","p","o","n","=","3"," ","s","p","e","c","i","a","l","=","0","\n">>,
      <<"[","2","8","]","[","G","a","m","e","]",":"," ","l","e","a","v","e"," ","p","l","a","y","e","r","=","'","0",":","a","'","\n">>,
      <<"[","2","9","]","[","g","a","m","e","s","]",":"," ","l","e","a","v","e"," ","p","l","a","y","e","r","=","'","0",":","a","'","\n">>,
      <<"[","2","a","]","["," ","g","a","m","e","]",":"," ","l","e","a","v","e"," ","p","l","a","y","e","r","=","'","0",":","a","'","\n">>,
      <<"[","2","b","]","[","]",":"," ","l","e","a","v","e"," ","p","l","a","y","e","r","=","'","0",":","a","'","\n">>,
      <<"[","2","c","]","[","d","a","t","a","f","i","l","e","]",":"," ","l","o","a","d","i","n","g"," ","d","o","n","e","\n">> }

\* well-formed game lines whose first payload word is no key of the table
UnknownKindLines ==
    { UnknownKindLine,
      <<"[","2","d","]","[","g","a","m","e","]",":"," ","k","i","l","l","s"," ","p","l","a","y","e","r","=","'","1",":","A","'"," ","v","i","c","t","i","m","=","'","1",":","A","'"," ","w","e","a","p","o","n","=","3"," ","s","p","e","c","i","a","l","=","0","\n">>,
      <<"[","2","e","]","[","g","a","m","e","]",":"," ","K","i","l","l"," ","p","l","a","y","e","r","=","'","1",":","A","'"," ","v","i","c","t","i","m","=","'","1",":","A","'"," ","w","e","a","p","o","n","=","3"," ","s","p","e","c","i","a","l","=","0","\n">>,
      <<"[","2","f","]","[","g","a","m","e","]",":"," ","s","t","a","r","t"," ","r","o","u","n","d"," ","t","y","p","e","=","'","D","M","'"," ","t","e","a","m","p","l","a","y","=","'","0","'","\n">>,
      <<"[","3","0","]","[","g","a","m","e","]",":"," "," ","l","e","a","v","e"," ","p","l","a","y","e","r","=","'","0",":","a","'","\n">>,
      <<"[","3","1","]","[","g","a","m","e","]",":"," ","f","l","a","g","_","g","r","a","b"," ","p","l","a","y","e","r","=","'","0",":","a","'","\n">> }

\* lines outside the grammar [<hex>][<channel>]: <payload>, or game lines whose
\* payload lacks a delimiter its extractor expects
BadTimestampLine == <<"[","z","z","]","[","g","a","m","e","]",":"," ","l","e","a","v","e"," ","p","l","a","y","e","r","=","'","0",":","a","'","\n">>
NoPayloadDelimiterLine == <<"[","3","2","]","[","g","a","m","e","]",":"," ","k","i","l","l"," ","p","l","a","y","e","r","=","'","1",":","A","'"," ","v","i","c","t","i","m","=","'","1",":","A","'","\n">>

MalformedLines ==
    { BadTimestampLine, NoPayloadDelimiterLine,
      <<"g","a","r","b","a","g","e","\n">>,
      <<"\n">>,
      <<"[","3","3","]"," ","n","o"," ","c","h","a","n","n","e","l","\n">>,
      <<"[","]","[","g","a","m","e","]",":"," ","l","e","a","v","e"," ","p","l","a","y","e","r","=","'","0",":","a","'","\n">>,
      <<"[","3","4","]","[","g","a","m","e","]"," ","l","e","a","v","e"," ","p","l","a","y","e","r","=","'","0",":","a","'","\n">>,
      <<"[","3","5","]","[","g","a","m","e","]",":"," ","l","e","a","v","e"," ","p","l","a","y","e","r","=","'","0","a","'","\n">>,
      <<"[","3","6","]","[","g","a","m","e","]",":"," ","l","e","a","v","e"," ","p","l","a","y","e","r","=","\n">>,
      <<"[","3","7","]","[","g","a","m","e","]",":"," ","p","i","c","k","u","p"," ","p","l","a","y","e","r","=","'","2",":","B","'","\n">>,
      <<"[","3","8","]","[","g","a","m","e","]",":"," ","t","e","a","m","_","j","o","i","n"," ","p","l","a","y","e","r","=","'","0",":","a","'","\n">>,
      <<"[","3","9","]","[","g","a","m","e","]",":"," ","v","e","l","o","c","i","t","y"," ","p","l","a","y","e","r","=","'","0",":","a","'"," ","v","a","l","u","e","=","f","a","s","t","\n">>,
      <<"[","z","z","]","[","c","h","a","t","]",":"," ","h","e","l","l","o","\n">> }

\* what readline() returns at end of input
EndOfInput == <<>>

\* the lines of Spec: two that are buffered, two that are skipped, two that raise
StdinLines ==
    {KillLine, PickupLine, ChatLine, UnknownKindLine,
     BadTimestampLine, NoPayloadDelimiterLine}

\* the lines of SpecLine
AllLines == GameLines \cup OtherChannelLines \cup UnknownKindLines \cup MalformedLines

\* decode_and_extract, tabulated once over the lines of the model
Decoded == [raw \in AllLines \cup {EndOfInput} |-> decode_and_extract(raw)]

-----------------------------------------------------------------------------
(* main(): the loop. *)

\* helpers.bulk(es_client, events) returns, or raises BulkIndexError (some
\* documents were refused) or a TransportError (the call itself failed)
BulkOutcomes == {"ok", "BulkIndexError", "TransportError"}

FlushThreshold == 5

\* len(events) > 5 written as len(events) >= 5
flush_due_at_threshold(buffer) == Len(buffer) >= FlushThreshold

\* len(events) > 5
flush_due(buffer) == Len(buffer) > FlushThreshold

\* events.append(event) written as events.insert(0, event)
append_at_front(buffer, event) == <<event>> \o buffer

\* events.append(event)
append(buffer, event) == Append(buffer, event)

\* events = [] written as events = [event]: the last record stays buffered
reset_keeps_last(buffer) == <<buffer[Len(buffer)]>>

\* events = []
reset(buffer) == <<>>

\* helpers.bulk raising, caught and ignored
bulk_raises_never(outcome) == FALSE

\* whether helpers.bulk raises
bulk_raises(outcome) == outcome # "ok"

\* `line is None`: readline() returns a str ('' at end of input), never None
line_is_None(raw) == FALSE

\* One pass of `while True` for the text readline() returned, helpers.bulk
\* ending with `outcome` if it is called.
loop_pass(raw, outcome) ==
    /\ pc = "Reading"
    /\ lines_read' = Append(lines_read, raw)
    /\ UNCHANGED <<call, ret>>
    /\ IF line_is_None(raw)
       THEN /\ pc' = "Returned"
            /\ UNCHANGED <<events, bulk_calls, exc, extractor_calls>>
       ELSE
       LET d == Decoded[raw]
       IN  /\ extractor_calls' = extractor_calls + (IF d.called THEN 1 ELSE 0)
           /\ CASE d.tag = "raise" ->
                    /\ pc' = "Raised"
                    /\ exc' = d.exc
                    /\ UNCHANGED <<events, bulk_calls>>
                [] d.tag = "continue" ->
                    UNCHANGED <<pc, exc, events, bulk_calls>>
                [] d.tag = "event" ->
                    LET buffer == append(events, d.event)
                    IN  IF ~flush_due(buffer)
                        THEN /\ events' = buffer
                             /\ UNCHANGED <<pc, exc, bulk_calls>>
                        ELSE /\ bulk_calls' = Append(bulk_calls,
                                    [actions |-> buffer, outcome |-> outcome])
                             /\ IF bulk_raises(outcome)
                                THEN /\ pc' = "Raised"
                                     /\ exc' = outcome
                                     /\ events' = buffer
                                ELSE /\ events' = reset(buffer)
                                     /\ UNCHANGED <<pc, exc>>

NoCall == [kind |-> "none"]

NoRet == [ok |-> FALSE, exc |-> "not called"]

Init ==
    /\ pc = "Reading"
    /\ events = <<>>
    /\ bulk_calls = <<>>
    /\ lines_read = <<>>
    /\ exc = "none"
    /\ extractor_calls = 0
    /\ call = NoCall
    /\ ret = NoRet

\* readline() returns the next line of the stream
ReadLine ==
    /\ Len(lines_read) < MaxLines
    /\ \E raw \in StdinLines, outcome \in BulkOutcomes : loop_pass(raw, outcome)

\* readline() returns '' : the stream is at its end
ReadEndOfInput ==
    /\ Len(lines_read) < MaxLines
    /\ \E outcome \in BulkOutcomes : loop_pass(EndOfInput, outcome)

Next == ReadLine \/ ReadEndOfInput

Spec == Init /\ [][Next]_vars

-----------------------------------------------------------------------------
(* SpecLine: the same loop on streams made of up to MaxFill kill lines, then  *)
(* any one line of AllLines, then one more kill line.  Every line of the     *)
(* model meets every buffer length the loop can hold.                        *)

\* Kill lines read before the line under test.
MaxFill == 5

OnlyKillLines(history) == \A i \in DOMAIN history : history[i] = KillLine

ReadFiller ==
    /\ Len(lines_read) < MaxFill
    /\ OnlyKillLines(lines_read)
    /\ \E outcome \in BulkOutcomes : loop_pass(KillLine, outcome)

ReadAnyLine ==
    /\ Len(lines_read) <= MaxFill
    /\ OnlyKillLines(lines_read)
    /\ \E raw \in AllLines \cup {EndOfInput}, outcome \in BulkOutcomes :
           loop_pass(raw, outcome)

ReadFollowing ==
    /\ lines_read # <<>>
    /\ lines_read[Len(lines_read)] # KillLine
    /\ OnlyKillLines(SubSeq(lines_read, 1, Len(lines_read) - 1))
    /\ \E outcome \in BulkOutcomes : loop_pass(KillLine, outcome)

NextLine == ReadFiller \/ ReadAnyLine \/ ReadFollowing

SpecLine == Init /\ [][NextLine]_vars

-----------------------------------------------------------------------------
(* SpecGame: the same loop on streams of kill and pickup lines, long enough *)
(* for a second call of helpers.bulk.                                       *)

\* Lines read from stdin in one behaviour of SpecGame.
MaxGameLines == 12

ReadGameLine ==
    /\ Len(lines_read) < MaxGameLines
    /\ \E raw \in {KillLine, PickupLine}, outcome \in BulkOutcomes :
           loop_pass(raw, outcome)

SpecGame == Init /\ [][ReadGameLine]_vars

-----------------------------------------------------------------------------
(* SpecExtract: one direct call of one extractor on a payload written from  *)
(* its fields.                                                              *)

Ids == {<<"1">>, <<"2">>, <<"1","0">>}

\* names with and without ':' and with the quote that closes the player part
Names == {<<"A">>, <<"a",":","b">>, <<":">>, <<>>, <<"o","'","c">>, <<"x"," ","y">>}

\* four keys of WEAPON_ID_2_NAME and four tokens that are not
WeaponTokens == {<<"-","3">>, <<"3">>, <<"0">>, <<"-","1">>, <<"7">>, <<"-","3","0">>, <<"3","3">>, <<"x">>}

\* three keys of item_pickup_to_name and three tokens that are not
ItemTokens == {<<"1","/","0">>, <<"2","/","3">>, <<"3","/","5">>, <<"4","/","0">>, <<"1">>, <<"1","/","0","0">>}

TeamTokens == {<<"0">>, <<"1">>, <<"-","1">>}

ValueTokens == {<<"0",".","0","0","1","9","5","3">>, <<"1","2",".","5","0">>, <<"0">>}

Calls ==
    [kind : {"kill"},
     killer_id : Ids, killer_name : {<<"A">>, <<"a",":","b">>, <<"o","'","c">>},
     victim_id : Ids, victim_name : {<<"A">>, <<"a",":","b">>, <<>>},
     weapon : WeaponTokens, special : {<<"0">>}]
    \cup [kind : {"pickup"}, player_id : Ids, player_name : Names, item : ItemTokens]
    \cup [kind : {"team_join"}, player_id : Ids, player_name : Names, team : TeamTokens]
    \cup [kind : {"leave"}, player_id : Ids, player_name : Names]
    \cup [kind : {"velocity"}, player_id : Ids, player_name : Names, value : ValueTokens]

\* the player part of a payload: id ':' name
PlayerPart(id, name) == id \o <<":">> \o name

\* the payload the server writes for the fields of c
Payload(c) ==
    CASE c.kind = "kill" ->
             <<"k","i","l","l"," ","p","l","a","y","e","r","=","'">> \o PlayerPart(c.killer_id, c.killer_name)
                 \o <<"'"," ","v","i","c","t","i","m","=","'">> \o PlayerPart(c.victim_id, c.victim_name)
                 \o <<"'"," ","w","e","a","p","o","n","=">> \o c.weapon \o <<" ","s","p","e","c","i","a","l","=">> \o c.special
      [] c.kind = "pickup" ->
             <<"p","i","c","k","u","p"," ","p","l","a","y","e","r","=","'">> \o PlayerPart(c.player_id, c.player_name)
                 \o <<"'"," ","i","t","e","m","=">> \o c.item
      [] c.kind = "team_join" ->
             <<"t","e","a","m","_","j","o","i","n"," ","p","l","a","y","e","r","=","'">> \o PlayerPart(c.player_id, c.player_name)
                 \o <<"'"," ","t","e","a","m","=">> \o c.team
      [] c.kind = "leave" ->
             <<"l","e","a","v","e"," ","p","l","a","y","e","r","=","'">> \o PlayerPart(c.player_id, c.player_name) \o <<"'">>
      [] c.kind = "velocity" ->
             <<"v","e","l","o","c","i","t","y"," ","p","l","a","y","e","r","=","'">> \o PlayerPart(c.player_id, c.player_name)
                 \o <<"'"," ","v","a","l","u","e","=">> \o c.value

CallTimestamp == 31

InitExtract ==
    /\ pc = "Reading"
    /\ events = <<>>
    /\ bulk_calls = <<>>
    /\ lines_read = <<>>
    /\ exc = "none"
    /\ extractor_calls = 0
    /\ call \in Calls
    /\ ret = NoRet

Returns(kind, result) ==
    /\ call.kind = kind
    /\ ret = NoRet
    /\ ret' = result
    /\ extractor_calls' = extractor_calls + 1
    /\ UNCHANGED <<pc, events, bulk_calls, lines_read, exc, call>>

CallKill == Returns("kill", extract_kill_event(Payload(call), CallTimestamp))

CallPickup == Returns("pickup", extract_pickup_event(Payload(call), CallTimestamp))

CallTeamJoin == Returns("team_join", extract_team_join_event(Payload(call), CallTimestamp))

CallLeave == Returns("leave", extract_leave_event(Payload(call), CallTimestamp))

CallVelocity == Returns("velocity", extract_velocity_event(Payload(call), CallTimestamp))

NextExtract == CallKill \/ CallPickup \/ CallTeamJoin \/ CallLeave \/ CallVelocity

SpecExtract == InitExtract /\ [][NextExtract]_vars

-----------------------------------------------------------------------------
(* Properties. *)

Last(s) == s[Len(s)]

RECURSIVE Concat(_)
Concat(batches) ==
    IF batches = <<>> THEN <<>> ELSE batches[1] \o Concat(Tail(batches))

\* the lists helpers.bulk was called with, in call order
SentBatches == [i \in DOMAIN bulk_calls |-> bulk_calls[i].actions]

\* the lists helpers.bulk accepted, in call order
DeliveredBatches ==
    LET ok == SelectSeq(bulk_calls, LAMBDA c : c.outcome = "ok")
    IN  [i \in DOMAIN ok |-> ok[i].actions]

\* the records of the lines of `history` that give one, in line order
RECURSIVE AcceptedEvents(_)
AcceptedEvents(history) ==
    IF history = <<>> THEN <<>>
    ELSE (IF Decoded[history[1]].tag = "event"
          THEN <<Decoded[history[1]].event>> ELSE <<>>)
         \o AcceptedEvents(Tail(history))

BagOfSeq(s) ==
    [e \in {s[i] : i \in DOMAIN s} |-> Cardinality({i \in DOMAIN s : s[i] = e})]

\* this step read a line
ReadsLine == lines_read' # lines_read

\* this step called helpers.bulk
Flushes == bulk_calls' # bulk_calls

\* C1: with the threshold 5, helpers.bulk is called exactly in the pass that
\* appends a record to a buffer of 5; it is called with those 6 records, in a
\* single call, and when it returns the buffer is empty.  The buffer of a
\* reading loop never holds more than 5 records and no list handed to
\* helpers.bulk holds more or fewer than 6.
C1_FlushExactlyAtSix ==
    [][ /\ Flushes <=> /\ ReadsLine
                      /\ Decoded[Last(lines_read')].tag = "event"
                      /\ Len(events) = 5
        /\ Flushes =>
             /\ Len(bulk_calls') = Len(bulk_calls) + 1
             /\ SubSeq(bulk_calls', 1, Len(bulk_calls)) = bulk_calls
             /\ Last(bulk_calls').actions =
                    Append(events, Decoded[Last(lines_read')].event)
             /\ Len(Last(bulk_calls').actions) = 6
             /\ Last(bulk_calls').outcome = "ok" => events' = <<>>
        /\ pc' = "Reading" => Len(events') <= 5
        /\ \A i \in DOMAIN bulk_calls' : Len(bulk_calls'[i].actions) = 6
      ]_vars

\* C1 witness: a call of helpers.bulk has returned and left the buffer empty,
\* on a stream that also held a line that is not buffered.
C1_Witness ==
    /\ pc = "Reading"
    /\ Len(bulk_calls) = 1
    /\ bulk_calls[1].outcome = "ok"
    /\ Len(bulk_calls[1].actions) = 6
    /\ events = <<>>
    /\ Len(lines_read) = 7

\* C2 (as claimed): the pass that reads a malformed line leaves the loop
\* reading, with no exception.
C2_MalformedLineIsSkipped ==
    (lines_read # <<>> /\ Last(lines_read) \in MalformedLines)
        => (pc = "Reading" /\ exc = "none")

\* C3 (as claimed): when readline() signals the end of input the loop ends,
\* main() returns and no exception is raised.
C3_EndOfInputCloses ==
    (lines_read # <<>> /\ Last(lines_read) = EndOfInput)
        => (pc = "Returned" /\ exc = "none")

\* C4: the records handed to helpers.bulk, call after call and in list order,
\* followed by the records still buffered, are the records of the buffered
\* lines in the order the lines were read.
C4_DeliveredInInputOrder ==
    /\ Concat(SentBatches) =
           SubSeq(AcceptedEvents(lines_read), 1, Len(Concat(SentBatches)))
    /\ pc = "Reading" =>
           Concat(DeliveredBatches) \o events = AcceptedEvents(lines_read)

\* C4 witness: two lists were delivered, the first holding a kill record
\* before a pickup record and a pickup record before a kill record.
C4_Witness ==
    /\ Len(DeliveredBatches) = 2
    /\ DeliveredBatches[1][1].type = "kill"
    /\ DeliveredBatches[1][2].type = "pickup"
    /\ DeliveredBatches[1][3].type = "kill"
    /\ DeliveredBatches[2][1].type = "pickup"
    /\ DeliveredBatches[2][6].type = "kill"

\* C5: every step is taken by a reading loop: once an exception has left
\* main() no line is read and helpers.bulk is not called again.  A call of
\* helpers.bulk that raises is the only call of its pass, its exception leaves
\* main(), and the buffer still holds the list it was called with; the buffer
\* is emptied only in a pass whose call of helpers.bulk returned.
C5_BulkFailureSurfaced ==
    [][ /\ pc = "Reading"
        /\ (Flushes /\ Last(bulk_calls').outcome # "ok") =>
             /\ Len(bulk_calls') = Len(bulk_calls) + 1
             /\ pc' = "Raised"
             /\ exc' = Last(bulk_calls').outcome
             /\ events' = Last(bulk_calls').actions
        /\ (events # <<>> /\ events' = <<>>) =>
             (Flushes /\ Last(bulk_calls').outcome = "ok")
      ]_vars

\* C5 witness: helpers.bulk raised BulkIndexError on the first flush.
C5_Witness ==
    /\ pc = "Raised"
    /\ exc = "BulkIndexError"
    /\ Len(bulk_calls) = 1
    /\ bulk_calls[1].outcome = "BulkIndexError"
    /\ events = bulk_calls[1].actions

C7_SuicideIffSameIdAndNotLeave ==
    (call.kind = "kill" /\ ret # NoRet) =>
        /\ ret.ok
        /\ ret.val.killer_id = call.killer_id
        /\ ret.val.victim_id = call.victim_id
        /\ ret.val.is_suicide =
               (call.killer_id = call.victim_id /\ call.weapon # <<"-","3">>)

\* C7 witness: killer and victim have the same id, the weapon is "-3", and
\* the record is no suicide.
C7_Witness ==
    /\ call.kind = "kill"
    /\ ret # NoRet
    /\ ret.ok
    /\ call.killer_id = call.victim_id
    /\ call.weapon = <<"-","3">>
    /\ ret.val.is_suicide = FALSE

\* C8: the weapon of a kill record and the item of a pickup record are the
\* label of the token of the payload when the token is a key of the table,
\* and the token itself when it is not.
C8_KnownCodesLabelledOthersVerbatim ==
    /\ (call.kind = "kill" /\ ret # NoRet) =>
          /\ ret.ok
          /\ call.weapon \in DOMAIN WEAPON_ID_2_NAME =>
                 ret.val.weapon = WEAPON_ID_2_NAME[call.weapon]
          /\ call.weapon \notin DOMAIN WEAPON_ID_2_NAME =>
                 ret.val.weapon = call.weapon
          /\ call.weapon = <<"-","3">> => ret.val.weapon = <<"l","e","a","v","e","_","t","e","a","m">>
    /\ (call.kind = "pickup" /\ ret # NoRet) =>
          /\ ret.ok
          /\ call.item \in DOMAIN item_pickup_to_name =>
                 ret.val.item = item_pickup_to_name[call.item]
          /\ call.item \notin DOMAIN item_pickup_to_name =>
                 ret.val.item = call.item
          /\ call.item = <<"1","/","0">> => ret.val.item = <<"a","r","m","o","r">>

\* C8 witness: a pickup of an item that is in no table.
C8_Witness ==
    /\ call.kind = "pickup"
    /\ ret # NoRet
    /\ ret.ok
    /\ call.item = <<"4","/","0">>
    /\ ret.val.item = <<"4","/","0">>

\* the player parts an extractor cuts out of the payload of the call, each
\* with the id and the name of the record and with the id, the name and the
\* closing delimiter of the payload
ExtractedPlayers ==
    LET log == Payload(call)
    IN  CASE call.kind = "kill" ->
               { <<kill_parts(log)[1], ret.val.killer_id, ret.val.killer_name,
                   call.killer_id, call.killer_name, <<"'"," ","v","i","c","t","i","m","=","'">>>>,
                 <<Split(kill_parts(log)[2], <<"'"," ","w","e","a","p","o","n","=">>, -1)[1],
                   ret.val.victim_id, ret.val.victim_name,
                   call.victim_id, call.victim_name, <<"'"," ","w","e","a","p","o","n","=">>>> }
          [] call.kind = "pickup" ->
               { <<pickup_parts(log)[1], ret.val.player_id, ret.val.player_name,
                   call.player_id, call.player_name, <<"'"," ","i","t","e","m","=">>>> }
          [] call.kind = "team_join" ->
               { <<team_join_parts(log)[1], ret.val.player_id, ret.val.player_name,
                   call.player_id, call.player_name, <<"'"," ","t","e","a","m","=">>>> }
          [] call.kind = "leave" ->
               { <<leave_parts(log)[1], ret.val.player_id, ret.val.player_name,
                   call.player_id, call.player_name, <<"'">>>> }
          [] call.kind = "velocity" ->
               { <<velocity_parts(log)[1], ret.val.player_id, ret.val.player_name,
                   call.player_id, call.player_name, <<"'"," ","v","a","l","u","e","=">>>> }

\* C9: every extractor returns a record for a player part id ':' name, and
\* the id and the name of the record are the two sides of the first ':' of the
\* player part the extractor cut out: id + ':' + name is that part, the id
\* holds no ':', and splitting id + ':' + name on its first ':' gives the
\* pair back.  The part cut out is the part the payload was written with
\* whenever that part does not hold the delimiter that closes it.
C9_PlayerPairRoundTrips ==
    ret # NoRet =>
        /\ ret.ok
        /\ \A p \in ExtractedPlayers :
              /\ p[2] \o <<":">> \o p[3] = p[1]
              /\ Find(p[2], <<":">>) = 0
              /\ Split(p[2] \o <<":">> \o p[3], <<":">>, 1) = <<p[2], p[3]>>
              /\ Find(PlayerPart(p[4], p[5]), p[6]) = 0 =>
                     (p[2] = p[4] /\ p[3] = p[5])

\* C9 witness: a leave record whose name holds a ':'.
C9_Witness ==
    /\ call.kind = "leave"
    /\ ret # NoRet
    /\ ret.ok
    /\ call.player_name = <<"a",":","b">>
    /\ ret.val.player_id = call.player_id
    /\ ret.val.player_name = <<"a",":","b">>

\* C10: while the loop reads, the records delivered and the records buffered
\* are together the records of the game lines read so far, each as many
\* times as its line was read, and there are as many of them as game lines
\* of a known kind were read.
C10_EventsConserved ==
    pc = "Reading" =>
        /\ Len(Concat(DeliveredBatches)) + Len(events) =
               Cardinality({i \in DOMAIN lines_read : lines_read[i] \in GameLines})
        /\ BagOfSeq(Concat(DeliveredBatches) \o events) =
               BagOfSeq(AcceptedEvents(lines_read))

\* C10 witness: one list of 6 was delivered and a seventh record is buffered.
C10_Witness ==
    /\ pc = "Reading"
    /\ Len(DeliveredBatches) = 1
    /\ Len(events) = 1
    /\ Len(lines_read) = 7

=============================================================================
